---- MODULE Spec2Model ----
(***************************************************************************)
(* Model of the tape-device assembler back end:                            *)
(*   - generate_byte_code and its helpers (src/src/assembler/generator)    *)
(*   - compile_strings (src/src/assembler/data.rs)                         *)
(*   - parse_number and Parameters::parse (src/src/language/parser)        *)
(*   - parse_line (src/src/language/mod.rs)                                *)
(*   - the stack operations of the device, as exercised by                 *)
(*     src/tests/execution/multiple/stack.rs                               *)
(* Strings are sequences of byte values, so that lengths, ordering and     *)
(* trimming are computed the way the Rust code computes them.              *)
(***************************************************************************)
EXTENDS Integers, Sequences, FiniteSets, TLC

VARIABLES
    unit,             \* which entry point this run exercises
    pc,               \* position inside the entry point
    result,           \* "running" | "ok" | "err" | "panic"
    program_model,    \* argument of generate_byte_code
    output,           \* generate_byte_code: the tape under construction
    offset,           \* generate_ops_bytes: its `offset` argument
    labels,           \* generate_ops_bytes: pending labels, line number -> LabelModel
    op_idx,           \* generate_ops_bytes: number of ops already emitted
    ops_output,       \* generate_ops_bytes: OpsOutput
    string_bytes,     \* generate_byte_code: strings segment
    string_addresses, \* generate_byte_code: string key -> address
    data_bytes,       \* generate_byte_code: data segment
    data_addresses,   \* generate_byte_code: data key -> address
    cs_input,         \* compile_strings: the caller's buffer as passed in
    lines,            \* compile_strings: the caller's buffer
    keep_whitespace,  \* compile_strings: flag
    line,             \* compile_strings: current line
    mapping,          \* compile_strings: key -> address
    cs_output,        \* compile_strings: emitted bytes
    input,            \* parser: the `input` argument
    kind,             \* Parameters::parse: `self`
    parsed,           \* parser: the value returned in Ok
    setup,            \* device: the ops and registers the run starts from
    device            \* device: registers, stack pointer and memory

vars == <<unit, pc, result, program_model, output, offset, labels, op_idx,
          ops_output, string_bytes, string_addresses, data_bytes,
          data_addresses, cs_input, lines, keep_whitespace, line, mapping,
          cs_output, input, kind, parsed, setup, device>>

genVars == <<program_model, output, offset, labels, op_idx, ops_output,
             string_bytes, string_addresses, data_bytes, data_addresses>>

csVars == <<cs_input, lines, keep_whitespace, line, mapping, cs_output>>

langVars == <<input, kind, parsed>>

devVars == <<setup, device>>

----------------------------------------------------------------------------
(* Bounds of the model *)

\* longest op list of a generated ProgramModel
MaxOps == 2

\* longest line buffer handed to compile_strings
MaxLines == 3

\* longest generated token handed to parse_number
MaxToken == 3

\* most operands of a generated line handed to parse_line
MaxOperands == 2

\* most instructions in a device program
MaxInstrs == 4

----------------------------------------------------------------------------
(* Integer widths and byte helpers *)

\* `x as u8`
U8(n) == n % 256

\* `x as u16`
U16(n) == n % 65536

\* u16::to_be_bytes
ToBeBytes(v) == <<v \div 256, v % 256>>

\* a string of n copies of byte b
Repeat(n, b) == [i \in 1..n |-> b]

\* HashMap::new()
EmptyMap == [k \in {} |-> 0]

\* HashMap::insert: a later insert of the same key replaces the entry
MapInsert(m, k, v) == [x \in (DOMAIN m) \cup {k} |-> IF x = k THEN v ELSE m[x]]

\* BTreeMap::remove
MapRemove(m, k) == [x \in (DOMAIN m) \ {k} |-> m[x]]

\* the orders in which a hash map may yield its keys
IterationOrders(S) ==
    {s \in [1..Cardinality(S) -> S] : \A i, j \in DOMAIN s : i # j => s[i] # s[j]}

\* String::cmp (byte-wise lexicographic), as used by sort_by
StrLess(a, b) ==
    \E i \in 1..(Len(a) + 1) :
        /\ \A j \in 1..(i - 1) : j <= Len(b) /\ a[j] = b[j]
        /\ IF i > Len(a) THEN Len(b) >= i
                         ELSE i <= Len(b) /\ a[i] < b[i]

----------------------------------------------------------------------------
(* Constants of the crate (constants::system, constants::hardware,         *)
(* constants::code); their defining module is not part of the sources.     *)

TAPE_HEADER_1 == 253
TAPE_HEADER_2 == 160
PRG_VERSION == 1
MAX_STRING_BYTES == 65535
MAX_DATA_BYTES == 65535

REG_ACC == 1
REG_D0 == 2
REG_D1 == 3
REG_D2 == 4
REG_D3 == 5
REG_A0 == 6
REG_A1 == 7

INC_REG == 10
CPY_REG_REG == 11
CPY_REG_VAL == 12
JMP_ADDR == 20
JMP_AREG == 21
PRTS_STR == 30
PRTC_VAL == 31
LD_AREG_DATA_VAL_REG == 40
LD_AREG_DATA_REG_VAL == 41
HALT == 50
PUSH_VAL == 60
PUSH_REG == 61
POP_REG == 62

----------------------------------------------------------------------------
(* Parameters and ops (program_model.rs, params.rs) *)

Number(v) == [kind |-> "Number", v |-> v, key |-> <<>>]
DataReg(v) == [kind |-> "DataReg", v |-> v, key |-> <<>>]
AddrReg(v) == [kind |-> "AddrReg", v |-> v, key |-> <<>>]
Addr(v) == [kind |-> "Addr", v |-> v, key |-> <<>>]
Label(k) == [kind |-> "Label", v |-> 0, key |-> k]
StrKey(k) == [kind |-> "StrKey", v |-> 0, key |-> k]
DataKey(k) == [kind |-> "DataKey", v |-> 0, key |-> k]

SymbolicKinds == {"Label", "StrKey", "DataKey"}

OpModel(opcode, params, line_num) ==
    [opcode |-> opcode, params |-> params, line_num |-> line_num]

\* bytes one operand contributes to the instruction
ParamBytes(p) ==
    IF p.kind \in SymbolicKinds THEN <<0, 0>>
    ELSE IF p.kind = "Addr" THEN ToBeBytes(p.v)
    ELSE <<p.v>>

RECURSIVE ParamsBytes(_)
ParamsBytes(params) ==
    IF params = <<>> THEN <<>>
    ELSE ParamBytes(Head(params)) \o ParamsBytes(Tail(params))

NoReplacement == [kind |-> "None", v |-> 0, key |-> <<>>]

\* OpModel::to_bytes: the encoding, and the symbol whose address is patched in
AddressReplacement(op) ==
    LET sym == {i \in DOMAIN op.params : op.params[i].kind \in SymbolicKinds}
    IN  IF sym = {} THEN NoReplacement
        ELSE op.params[CHOOSE i \in sym : \A j \in sym : i <= j]

ToBytes(op) == <<op.opcode>> \o ParamsBytes(op.params)

\* constants::get_addr_byte_offset
GetAddrByteOffset(opcode) ==
    IF opcode = LD_AREG_DATA_VAL_REG THEN 2 ELSE 1

----------------------------------------------------------------------------
(* generate_string_bytes / generate_data_bytes *)

RECURSIVE InsertSorted(_, _)
InsertSorted(k, s) ==
    IF s = <<>> THEN <<k>>
    ELSE IF StrLess(k, Head(s)) THEN <<k>> \o s
    ELSE <<Head(s)>> \o InsertSorted(k, Tail(s))

\* the mutation: the collected list is used as the hash map yielded it
UnsortedList(list) == list

\* list.sort_by(|lhs, rhs| lhs.0.cmp(&rhs.0))
RECURSIVE SortByKey(_)
SortByKey(list) ==
    IF list = <<>> THEN <<>>
    ELSE InsertSorted(Head(list), SortByKey(Tail(list)))

RECURSIVE StringLoop(_, _, _, _)
StringLoop(strings, list, out, addresses) ==
    IF list = <<>> THEN [ok |-> TRUE, bytes |-> out, addresses |-> addresses]
    ELSE LET key == Head(list)
             content == strings[key].content
         IN  IF Len(out) + Len(content) > MAX_STRING_BYTES
             THEN [ok |-> FALSE, bytes |-> out, addresses |-> addresses]
             ELSE StringLoop(strings, Tail(list),
                             out \o <<U8(Len(content))>> \o content,
                             MapInsert(addresses, key, U16(Len(out))))

\* generate_string_bytes, given the order in which the hash map is drained
GenerateStringBytes(strings, order) ==
    StringLoop(strings, SortByKey(order), <<>>, EmptyMap)

RECURSIVE DataLoop(_, _, _, _)
DataLoop(data, list, out, addresses) ==
    IF list = <<>> THEN [ok |-> TRUE, bytes |-> out, addresses |-> addresses]
    ELSE LET key == Head(list)
             content == data[key].content
         IN  IF Len(out) + Len(content) > MAX_DATA_BYTES
             THEN [ok |-> FALSE, bytes |-> out, addresses |-> addresses]
             ELSE DataLoop(data, Tail(list), out \o content,
                           MapInsert(addresses, key, U16(Len(out))))

\* generate_data_bytes, given the order in which the hash map is drained
GenerateDataBytes(data, order) ==
    DataLoop(data, SortByKey(order), <<>>, EmptyMap)

----------------------------------------------------------------------------
(* update_addresses *)

\* the mutation: the address is written low byte first
PatchAtLittleEndian(bytes, off, source) ==
    [bytes EXCEPT ![off + 1] = ToBeBytes(source)[2],
                  ![U16(off + 1) + 1] = ToBeBytes(source)[1]]

\* bytes[offset] = addr[0]; bytes[offset + 1] = addr[1]   (0-based offsets)
PatchAt(bytes, off, source) ==
    [bytes EXCEPT ![off + 1] = ToBeBytes(source)[1],
                  ![U16(off + 1) + 1] = ToBeBytes(source)[2]]

\* whether both indexed writes are inside the vector
InBounds(bytes, off) == off + 1 <= Len(bytes) /\ U16(off + 1) + 1 <= Len(bytes)

\* line 49: `*offset + 1` is computed in u16 and overflows at 65535; a
\* build with overflow checks panics there, one without wraps to 0
Overflows(off) == off + 1 > 65535

RECURSIVE PatchOffsets(_, _, _, _)
PatchOffsets(res, op_offsets, source, checks) ==
    IF op_offsets = <<>> \/ ~res.ok THEN res
    ELSE IF ~InBounds(res.bytes, Head(op_offsets))
            \/ (checks /\ Overflows(Head(op_offsets)))
    THEN [ok |-> FALSE, bytes |-> res.bytes]
    ELSE PatchOffsets([ok |-> TRUE,
                       bytes |-> PatchAt(res.bytes, Head(op_offsets), source)],
                      Tail(op_offsets), source, checks)

RECURSIVE UpdateLoop(_, _, _, _, _)
UpdateLoop(res, targets, sources, order, checks) ==
    IF order = <<>> \/ ~res.ok THEN res
    ELSE LET key == Head(order)
         IN  UpdateLoop(IF key \in DOMAIN targets
                        THEN PatchOffsets(res, targets[key], sources[key], checks)
                        ELSE res,
                        targets, sources, Tail(order), checks)

\* update_addresses, given the order in which `sources` is iterated and
\* whether the build checks arithmetic overflow; ok = FALSE stands for a
\* panic (index out of bounds, or the checked overflow)
UpdateAddresses(bytes, targets, sources, order, checks) ==
    UpdateLoop([ok |-> TRUE, bytes |-> bytes], targets, sources, order, checks)

----------------------------------------------------------------------------
(* convert_label_map_to_linenum and the loop body of generate_ops_bytes *)

NoDefinition == [some |-> FALSE, line_num |-> 0]
Definition(n) == [some |-> TRUE, line_num |-> n]
LabelModel(key, def) == [key |-> key, definition |-> def]

RECURSIVE CollectLabels(_, _, _)
CollectLabels(lbls, order, acc) ==
    IF order = <<>> THEN acc
    ELSE CollectLabels(lbls, Tail(order),
                       MapInsert(acc, lbls[Head(order)].definition.line_num,
                                 lbls[Head(order)]))

\* convert_label_map_to_linenum, given the order in which the hash map is
\* drained: collect() into a BTreeMap keeps the last model of each line number
ConvertLabelMapToLinenum(lbls, order) == CollectLabels(lbls, order, EmptyMap)

\* labels.values().next(): the entry with the smallest line number
FirstLine(lbls) == CHOOSE l \in DOMAIN lbls : \A m \in DOMAIN lbls : l <= m

EmptyOpsOutput ==
    [bytes |-> <<>>, string_targets |-> EmptyMap, data_targets |-> EmptyMap,
     label_targets |-> EmptyMap, label_addresses |-> EmptyMap]

\* whether the head of the pending labels is bound before `op`
BindsLabel(lbls, op) == DOMAIN lbls # {} /\ FirstLine(lbls) <= op.line_num

\* lines 73-89: label_addresses after the binding step
BindLabel(lbls, out, op) ==
    IF BindsLabel(lbls, op)
    THEN MapInsert(out.label_addresses, lbls[FirstLine(lbls)].key,
                   U16(Len(out.bytes)))
    ELSE out.label_addresses

\* lines 73-89: the pending labels after the binding step
PendingAfter(lbls, op) ==
    IF BindsLabel(lbls, op) THEN MapRemove(lbls, FirstLine(lbls)) ELSE lbls

\* targets.entry(key).or_insert_with(Vec::new).push(target)
PushTarget(targets, key, target) ==
    MapInsert(targets, key,
              (IF key \in DOMAIN targets THEN targets[key] ELSE <<>>) \o <<target>>)

\* lines 90-104: record the patch target of the op and append its bytes
EmitOp(out, op, off) ==
    LET rep == AddressReplacement(op)
        target == U16(Len(out.bytes) + GetAddrByteOffset(op.opcode) + off)
        bytes_after == out.bytes \o ToBytes(op)
    IN  IF rep.kind = "Label"
        THEN [out EXCEPT !.bytes = bytes_after,
                         !.label_targets = PushTarget(@, rep.key, target)]
        ELSE IF rep.kind = "StrKey"
        THEN [out EXCEPT !.bytes = bytes_after,
                         !.string_targets = PushTarget(@, rep.key, target)]
        ELSE IF rep.kind = "DataKey"
        THEN [out EXCEPT !.bytes = bytes_after,
                         !.data_targets = PushTarget(@, rep.key, target)]
        ELSE [out EXCEPT !.bytes = bytes_after]

----------------------------------------------------------------------------
(* compile_strings helpers (data.rs) *)

OPS_MARKER == <<46, 111, 112, 115>>   \* ".ops"
EQUALS == 61                          \* '='

\* char::is_whitespace on the byte range
Whitespace == {9, 10, 11, 12, 13, 32}

\* char::is_ascii_alphanumeric
IsAsciiAlphanumeric(c) ==
    (48 <= c /\ c <= 57) \/ (65 <= c /\ c <= 90) \/ (97 <= c /\ c <= 122)

\* str::find('='): 1-based index of the first '=', 0 for None
FindEquals(s) ==
    IF \E i \in DOMAIN s : s[i] = EQUALS
    THEN CHOOSE i \in DOMAIN s : s[i] = EQUALS /\ \A j \in 1..(i - 1) : s[j] # EQUALS
    ELSE 0

RECURSIVE TrimStart(_)
TrimStart(s) ==
    IF s # <<>> /\ Head(s) \in Whitespace THEN TrimStart(Tail(s)) ELSE s

RECURSIVE TrimEnd(_)
TrimEnd(s) ==
    IF s # <<>> /\ s[Len(s)] \in Whitespace
    THEN TrimEnd(SubSeq(s, 1, Len(s) - 1)) ELSE s

\* the mutation: only leading whitespace is removed
TrimLeadingOnly(s) == TrimStart(s)

\* str::trim
Trim(s) == TrimEnd(TrimStart(s))

\* line.split_at(idx).0, trimmed (line 14, line 19)
KeyOf(ln) == Trim(SubSeq(ln, 1, FindEquals(ln) - 1))

\* content.chars().skip(1).collect(), trimmed unless keep_whitespace (lines 15-18)
ContentOf(ln, keep) ==
    LET raw == SubSeq(ln, FindEquals(ln) + 1, Len(ln))
    IN  IF keep THEN raw ELSE Trim(raw)

\* lines 20-23: some character of the key is outside [A-Za-z0-9_]
InvalidKey(key) ==
    \E i \in DOMAIN key : ~(IsAsciiAlphanumeric(key[i]) \/ key[i] = 95)

\* the mutation: one more byte of content is let through
ContentTooLongOffByOne(content) == Len(content) > 256

\* line 29: content.len() > 255
ContentTooLong(content) == Len(content) > 255

\* line 32: output.len() >= u16::MAX as usize
OutputFull(out) == Len(out) >= 65535

\* lines 13-44: the checks that make the body of the loop return Err
LineRejected(ln, keep, out) ==
    \/ FindEquals(ln) = 0
    \/ InvalidKey(KeyOf(ln))
    \/ ContentTooLong(ContentOf(ln, keep))
    \/ OutputFull(out)

----------------------------------------------------------------------------
(* parse_number and Parameters::parse (params.rs) *)

QUOTE == 39    \* '\''
HASH == 35     \* '#'
PLUS == 43     \* '+'
MINUS == 45    \* '-'
CHAR_B == 98   \* 'b'
CHAR_X == 120  \* 'x'

\* no Param: the call has not returned Ok
NoParam == [kind |-> "None", v |-> 0, key |-> <<>>]

\* char::to_digit(36): the value of a digit character, 36 for any other
DigitValue(c) ==
    IF 48 <= c /\ c <= 57 THEN c - 48
    ELSE IF 97 <= c /\ c <= 122 THEN c - 97 + 10
    ELSE IF 65 <= c /\ c <= 90 THEN c - 65 + 10
    ELSE 36

\* the digit loop of from_str_radix for an unsigned type of maximum max:
\* checked_mul and checked_add
RECURSIVE Accumulate(_, _, _, _)
Accumulate(digits, radix, acc, max) ==
    IF digits = <<>> THEN [ok |-> TRUE, v |-> acc]
    ELSE IF DigitValue(Head(digits)) >= radix
            \/ acc * radix + DigitValue(Head(digits)) > max
    THEN [ok |-> FALSE, v |-> 0]
    ELSE Accumulate(Tail(digits), radix,
                    acc * radix + DigitValue(Head(digits)), max)

\* u8::from_str_radix and u16::from_str_radix: an empty string and a lone
\* sign are errors, a leading '+' is skipped, '-' is not a digit of an
\* unsigned type
FromStrRadix(src, radix, max) ==
    IF src = <<>> THEN [ok |-> FALSE, v |-> 0]
    ELSE IF Len(src) = 1 /\ src[1] \in {PLUS, MINUS} THEN [ok |-> FALSE, v |-> 0]
    ELSE IF src[1] = PLUS THEN Accumulate(Tail(src), radix, 0, max)
    ELSE Accumulate(src, radix, 0, max)

\* line 127: input.len() == 3 && starts_with('\'') && ends_with('\'')
IsCharLiteral(s) == Len(s) = 3 /\ s[1] = QUOTE /\ s[Len(s)] = QUOTE

\* parse_number: [ok, param]
ParseNumber(s) ==
    LET num ==
          IF s # <<>> /\ s[1] = CHAR_X THEN FromStrRadix(Tail(s), 16, 255)
          ELSE IF s # <<>> /\ s[1] = CHAR_B
          THEN IF Len(s) = 9 THEN FromStrRadix(Tail(s), 2, 255)
               ELSE [ok |-> FALSE, v |-> 0]
          ELSE IF IsCharLiteral(s)
          THEN IF s[2] < 128 THEN [ok |-> TRUE, v |-> s[2]]
               ELSE [ok |-> FALSE, v |-> 0]
          ELSE FromStrRadix(s, 10, 255)
    IN  [ok |-> num.ok, param |-> IF num.ok THEN Number(num.v) ELSE NoParam]


AT == 64       \* '@'

\* str::to_ascii_lowercase
ToAsciiLowercase(s) == [i \in DOMAIN s |-> IF 65 <= s[i] /\ s[i] <= 90 THEN s[i] + 32 ELSE s[i]]

\* index of the first '#', 0 for none
FindHash(s) ==
    IF \E i \in DOMAIN s : s[i] = HASH
    THEN CHOOSE i \in DOMAIN s : s[i] = HASH /\ \A j \in 1..(i - 1) : s[j] # HASH
    ELSE 0

\* strip_trailing_comment: input.split('#') [0], trimmed
StripTrailingComment(s) ==
    IF FindHash(s) = 0 THEN Trim(s) ELSE Trim(SubSeq(s, 1, FindHash(s) - 1))

Failed == [ok |-> FALSE, param |-> NoParam]
Parsed(param) == [ok |-> TRUE, param |-> param]

\* parse_data_reg
ParseDataReg(s) ==
    LET name == ToAsciiLowercase(s)
    IN  IF name = <<100, 48>> THEN Parsed(DataReg(REG_D0))
        ELSE IF name = <<100, 49>> THEN Parsed(DataReg(REG_D1))
        ELSE IF name = <<100, 50>> THEN Parsed(DataReg(REG_D2))
        ELSE IF name = <<100, 51>> THEN Parsed(DataReg(REG_D3))
        ELSE IF name = <<97, 99, 99>> THEN Parsed(DataReg(REG_ACC))
        ELSE Failed

\* parse_addr_reg
ParseAddrReg(s) ==
    LET name == ToAsciiLowercase(s)
    IN  IF name = <<97, 48>> THEN Parsed(AddrReg(REG_A0))
        ELSE IF name = <<97, 49>> THEN Parsed(AddrReg(REG_A1))
        ELSE Failed

\* parse_addr
ParseAddr(s) ==
    IF s = <<>> \/ s[1] # AT THEN Failed
    ELSE LET rest == Tail(s)
             num == IF rest # <<>> /\ rest[1] = CHAR_X
                    THEN FromStrRadix(Tail(rest), 16, 65535)
                    ELSE FromStrRadix(rest, 10, 65535)
         IN  IF num.ok THEN Parsed(Addr(num.v)) ELSE Failed

\* the kinds Parameters::parse has an arm for
ParameterKinds ==
    {"NUMBER", "DATA_REG", "ADDR_REG", "ADDRESS", "LABEL", "DATA_KEY",
     "STRING_KEY", "REGISTERS", "ADDRESSES"}

\* Parameters::parse for a kind with an arm: [ok, param]
ParametersParse(k, s) ==
    LET in == StripTrailingComment(s)
    IN  CASE k = "NUMBER" -> ParseNumber(in)
          [] k = "DATA_REG" -> ParseDataReg(in)
          [] k = "ADDR_REG" -> ParseAddrReg(in)
          [] k = "ADDRESS" -> ParseAddr(in)
          [] k = "LABEL" -> Parsed(Label(in))
          [] k = "DATA_KEY" -> Parsed(DataKey(in))
          [] k = "STRING_KEY" -> Parsed(StrKey(in))
          [] k = "REGISTERS" ->
                IF ParseDataReg(in).ok THEN ParseDataReg(in)
                ELSE IF ParseAddrReg(in).ok THEN ParseAddrReg(in)
                ELSE Failed
          [] k = "ADDRESSES" ->
                IF ParseAddr(in).ok THEN ParseAddr(in) ELSE Parsed(Label(in))

----------------------------------------------------------------------------
(* parse_line (language/mod.rs) and the opcode catalogue (language/ops.rs) *)

NEWLINE == 10

\* last index of the run of non-whitespace that starts at i
RunEnd(s, i) ==
    CHOOSE e \in i..Len(s) :
        /\ \A j \in i..e : s[j] \notin Whitespace
        /\ e = Len(s) \/ s[e + 1] \in Whitespace

\* LINE_REGEX.find_iter from index i on: at each position a quoted
\* character is tried first, then a run of non-whitespace
RECURSIVE TokenizeFrom(_, _)
TokenizeFrom(s, i) ==
    IF i > Len(s) THEN <<>>
    ELSE IF i + 2 <= Len(s) /\ s[i] = QUOTE /\ s[i + 2] = QUOTE
            /\ s[i + 1] # NEWLINE
    THEN <<SubSeq(s, i, i + 2)>> \o TokenizeFrom(s, i + 3)
    ELSE IF s[i] \in Whitespace THEN TokenizeFrom(s, i + 1)
    ELSE <<SubSeq(s, i, RunEnd(s, i))>> \o TokenizeFrom(s, RunEnd(s, i) + 1)

\* lines 19-22: the tokens of the line
Tokenize(s) == TokenizeFrom(s, 1)

Variant(opcode, kinds) == [opcode |-> opcode, kinds |-> kinds]
Op(mnemonic, variants) == [mnemonic |-> mnemonic, variants |-> variants]

\* OPS: one entry per mnemonic, its signatures in declaration order
OPS ==
    << Op(<<105, 110, 99>>, <<Variant(INC_REG, <<"DATA_REG">>)>>),
       Op(<<99, 112, 121>>, <<Variant(CPY_REG_REG, <<"DATA_REG", "DATA_REG">>),
                              Variant(CPY_REG_VAL, <<"DATA_REG", "NUMBER">>)>>),
       Op(<<106, 109, 112>>, <<Variant(JMP_AREG, <<"ADDR_REG">>),
                               Variant(JMP_ADDR, <<"ADDRESSES">>)>>),
       Op(<<112, 114, 116, 115>>, <<Variant(PRTS_STR, <<"STRING_KEY">>)>>),
       Op(<<112, 114, 116, 99>>, <<Variant(PRTC_VAL, <<"NUMBER">>)>>),
       Op(<<108, 100>>,
          <<Variant(LD_AREG_DATA_REG_VAL,
                    <<"ADDR_REG", "DATA_KEY", "DATA_REG", "NUMBER">>),
            Variant(LD_AREG_DATA_VAL_REG,
                    <<"ADDR_REG", "DATA_KEY", "NUMBER", "DATA_REG">>)>>),
       Op(<<104, 97, 108, 116>>, <<Variant(HALT, <<>>)>>) >>

\* Op::matches: the mnemonic, compared without regard to case
OpMatches(op, text) == ToAsciiLowercase(text) = op.mnemonic

\* one signature against the operand tokens: the count, then every operand
VariantAccepts(variant, operands) ==
    /\ Len(operands) = Len(variant.kinds)
    /\ \A i \in DOMAIN operands : ParametersParse(variant.kinds[i], operands[i]).ok

VariantParams(variant, operands) ==
    [i \in DOMAIN operands |-> ParametersParse(variant.kinds[i], operands[i]).param]

NoSelection == [opcode |-> 0, params |-> <<>>]

\* Op::parse: the first signature that accepts the operands, None if none
OpParse(op, operands) ==
    LET accepting == {i \in DOMAIN op.variants : VariantAccepts(op.variants[i], operands)}
        first == CHOOSE i \in accepting : \A j \in accepting : i <= j
    IN  IF accepting = {} THEN [some |-> FALSE, value |-> NoSelection]
        ELSE [some |-> TRUE,
              value |-> [opcode |-> op.variants[first].opcode,
                         params |-> VariantParams(op.variants[first], operands)]]

\* the mutation: the mnemonic is handed on as an operand
OperandsWithMnemonic(parts) == parts

\* lines 26-30: &parts[1..], or &[] when there is one part
Operands(parts) == Tail(parts)

\* parse_line: [result, value]; indexing parts[0] of no parts panics
ParseLine(s) ==
    LET parts == Tokenize(s)
        matching == {i \in DOMAIN OPS : OpMatches(OPS[i], parts[1])}
        op == OPS[CHOOSE i \in matching : \A j \in matching : i <= j]
    IN  IF parts = <<>> THEN [result |-> "panic", value |-> NoSelection]
        ELSE IF matching = {} THEN [result |-> "err", value |-> NoSelection]
        ELSE IF OpParse(op, Operands(parts)).some
        THEN [result |-> "ok", value |-> OpParse(op, Operands(parts)).value]
        ELSE [result |-> "err", value |-> NoSelection]

----------------------------------------------------------------------------
(* The device: PUSH and POP (device/mod.rs is not part of the sources;    *)
(* the steps follow what tests/execution/multiple/stack.rs observes)       *)

\* the stack pointer of a device that has pushed nothing
SP_START == 65535

DataRegs == {REG_D0, REG_D1, REG_D2, REG_D3}

AddrRegs == {REG_A0, REG_A1}

\* memory is zero until written; only written cells are kept
MemRead(mem, a) == IF a \in DOMAIN mem THEN mem[a] ELSE 0

\* bytes a register takes on the stack
RegWidth(r) == IF r \in AddrRegs THEN 2 ELSE 1

RegValue(dev, r) ==
    IF r = REG_ACC THEN dev.acc
    ELSE IF r \in DataRegs THEN dev.data_reg[r - REG_D0 + 1]
    ELSE dev.addr_reg[r - REG_A0 + 1]

SetReg(dev, r, v) ==
    IF r = REG_ACC THEN [dev EXCEPT !.acc = v]
    ELSE IF r \in DataRegs THEN [dev EXCEPT !.data_reg[r - REG_D0 + 1] = v]
    ELSE [dev EXCEPT !.addr_reg[r - REG_A0 + 1] = v]

StackBytesLowFirst(v, w) == IF w = 2 THEN <<v % 256, v \div 256>> ELSE <<v>>

\* the bytes of a value as they lie on the stack, high byte first
StackBytes(v, w) == IF w = 2 THEN ToBeBytes(v) ELSE <<v>>

\* the value held by bytes read from the stack
StackValue(bytes) ==
    IF Len(bytes) = 2 THEN bytes[1] * 256 + bytes[2] ELSE bytes[1]

\* sp moves down by the width, then the bytes are stored from the new sp
Push(dev, bytes) ==
    LET sp == dev.sp - Len(bytes)
        written == {sp + i - 1 : i \in DOMAIN bytes}
    IN  [dev EXCEPT !.sp = sp,
                    !.mem = [a \in DOMAIN dev.mem \cup written |->
                               IF a \in written THEN bytes[a - sp + 1]
                               ELSE dev.mem[a]]]

\* the bytes at sp are read into the register, then sp moves up by the width
Pop(dev, r) ==
    LET w == RegWidth(r)
        bytes == [i \in 1..w |-> MemRead(dev.mem, dev.sp + i - 1)]
    IN  [SetReg(dev, r, StackValue(bytes)) EXCEPT !.sp = dev.sp + w]

\* one step of the device over a two-byte stack instruction at pc
Execute(dev, ops) ==
    LET opcode == ops[dev.pc + 1]
        arg == ops[dev.pc + 2]
        after == IF opcode = PUSH_VAL THEN Push(dev, <<arg>>)
                 ELSE IF opcode = PUSH_REG
                 THEN Push(dev, StackBytes(RegValue(dev, arg), RegWidth(arg)))
                 ELSE Pop(dev, arg)
    IN  [after EXCEPT !.pc = dev.pc + 2]

----------------------------------------------------------------------------
(* Inputs *)

KA == <<97>>         \* "a"
KAB == <<97, 98>>    \* "ab"
KB == <<98>>         \* "b"
LX == <<120>>        \* "x"
LY == <<121>>        \* "y"

Template(opcode, params) == [opcode |-> opcode, params |-> params]

T_INC == Template(INC_REG, <<DataReg(REG_D0)>>)
T_JMP(k) == Template(JMP_ADDR, <<Label(k)>>)
T_JMP_LIT == Template(JMP_ADDR, <<Addr(258)>>)
T_PRTS(k) == Template(PRTS_STR, <<StrKey(k)>>)
T_LD(k) == Template(LD_AREG_DATA_VAL_REG,
                    <<AddrReg(REG_A0), DataKey(k), Number(2), DataReg(REG_D3)>>)

\* line number of the i-th op: two free lines before every op
OpLine(i) == 3 * i - 1

\* label definitions may sit on any line up to one past the last op
LabelLines == 0..(3 * MaxOps)

SeqsUpTo(T, n) == UNION {[1..k -> T] : k \in 0..n}

BuildOps(ts) == [i \in DOMAIN ts |-> OpModel(ts[i].opcode, ts[i].params, OpLine(i))]

OpLists(T) == {BuildOps(ts) : ts \in SeqsUpTo(T, MaxOps)}

\* tables over the keys K whose entries carry a content from C
Tables(K, C) ==
    UNION {{[k \in S |-> [content |-> c[k]]] : c \in [S -> C]} : S \in SUBSET K}

LabelDefs == {NoDefinition} \cup {Definition(n) : n \in LabelLines}

LabelTables ==
    UNION {{[k \in S |-> LabelModel(k, d[k])] : d \in [S -> LabelDefs]} :
           S \in SUBSET {LX, LY}}

ProgramModel(name, version, ops, strings, data, lbls) ==
    [name |-> name, version |-> version, ops |-> ops, strings |-> strings,
     data |-> data, labels |-> lbls]

\* strings "a", "ab", "b" and data blobs "a", "b"
ThreeStrings ==
    (KA :> [content |-> <<120>>]) @@ (KAB :> [content |-> <<>>])
        @@ (KB :> [content |-> <<121, 122>>])
TwoBlobs == (KA :> [content |-> <<1, 2, 3>>]) @@ (KB :> [content |-> <<4>>])

NameLens == {0, 1, 255, 256}
VersionLens == {0, 1, 256}

HeaderModels ==
    {ProgramModel(Repeat(n, 97), Repeat(v, 98), BuildOps(ts), s, d, EmptyMap) :
        n \in NameLens, v \in VersionLens,
        ts \in {<<>>, <<T_INC>>, <<T_JMP_LIT>>, <<T_PRTS(KA), T_LD(KA)>>,
                <<T_PRTS(KB), T_LD(KB)>>},
        s \in {EmptyMap, KA :> [content |-> <<120>>], ThreeStrings},
        d \in {EmptyMap, KA :> [content |-> <<1, 2>>], TwoBlobs}}

StringModels ==
    {ProgramModel(<<97>>, <<98>>, ops, s, EmptyMap, EmptyMap) :
        ops \in OpLists({T_INC, T_PRTS(KA), T_PRTS(KAB), T_PRTS(KB)}),
        s \in Tables({KA, KAB, KB}, {<<>>, <<120, 121>>})}

DataModels ==
    {ProgramModel(<<97>>, <<98>>, ops, EmptyMap, d, EmptyMap) :
        ops \in OpLists({T_INC, T_LD(KAB), T_LD(KB)}),
        d \in Tables({KAB, KB}, {<<>>, <<1, 2, 3>>})}

LabelledModels ==
    {ProgramModel(<<97>>, <<98>>, ops, EmptyMap, EmptyMap, l) :
        ops \in OpLists({T_INC, T_JMP(LX), T_JMP(LY)}),
        l \in LabelTables}

\* entries at and beyond the per-entry and per-segment caps
CapModels ==
    {ProgramModel(<<97>>, <<98>>, <<OpModel(PRTS_STR, <<StrKey(KB)>>, 0)>>, s, d, EmptyMap) :
        s \in {KA :> [content |-> Repeat(255, 120)],
               KA :> [content |-> Repeat(256, 120)],
               (KA :> [content |-> Repeat(256, 120)]) @@ (KB :> [content |-> <<121>>]),
               KA :> [content |-> Repeat(MAX_STRING_BYTES, 120)],
               KA :> [content |-> Repeat(MAX_STRING_BYTES + 1, 120)]},
        d \in {EmptyMap, KA :> [content |-> Repeat(MAX_DATA_BYTES + 1, 7)]}}

\* arguments of generate_ops_bytes: the ops and labels of the models above
\* (generate_ops_bytes reads nothing else of a ProgramModel)
OpsModels ==
    {ProgramModel(<<>>, <<>>, pm.ops, EmptyMap, EmptyMap, pm.labels) :
        pm \in StringModels \cup DataModels \cup LabelledModels}

\* `offset` arguments: 0 as in test_target_gen, the prefix of a tape with a
\* one-byte name and version, and prefixes that put the operand of the
\* first op at or beyond tape offset 65,535
OffsetArgs == {0, 9, 65533, 65534, 65535, 65536}

\* a tape whose last op has its operand at offsets 65,535 and 65,536
LongBytes == Repeat(65534, 0) \o <<PRTS_STR, 0, 0>>

ShortBytes == <<PRTS_STR, 0, 0, PRTS_STR, 0, 0>>

\* target maps over the keys "a" and "b", each with one or two sites
ShortTargets ==
    UNION {[ks -> {<<1>>, <<4>>, <<1, 4>>}] : ks \in SUBSET {KA, KB}}

\* address tables over the keys "a", "b" and "ab"
AddressTables ==
    UNION {[ks -> {4, 258}] : ks \in SUBSET {KA, KB, KAB}}

\* arguments of update_addresses
UpdateCalls ==
    {[bytes |-> ShortBytes, targets |-> t, sources |-> a] :
        t \in ShortTargets, a \in AddressTables}
    \cup {[bytes |-> LongBytes, targets |-> (KA :> <<o>>), sources |-> (KA :> 258)] :
            o \in {65534, 65535}}

ProgramModels ==
    HeaderModels \cup StringModels \cup DataModels \cup LabelledModels \cup CapModels

\* "c= " and 255 times 'x': 255 bytes of content once trimmed, 256 as written
LINE_255 == <<99, 61, 32>> \o Repeat(255, 120)

\* "c=" and 256 times 'x'
LINE_256 == <<99, 61>> \o Repeat(256, 120)

CandidateLines ==
    { <<97, 61, 120>>,              \* "a=x"
      <<97, 61, 121, 121>>,         \* "a=yy"
      <<98, 61, 32, 122, 32>>,      \* "b= z "
      <<32, 97, 98, 32, 61, 120>>,  \* " ab =x"
      OPS_MARKER,                   \* ".ops"
      <<111, 111, 112, 115>>,       \* "oops"
      <<61, 99>>,                   \* "=c"
      <<97, 45, 98, 61, 120>>,      \* "a-b=x"
      <<107, 61, 61, 118>>,         \* "k==v"
      LINE_255,
      LINE_256 }

\* "a=" and 255 times 'x': an entry that emits 256 bytes
LINE_FULL == <<97, 61>> \o Repeat(255, 120)

\* 256 such entries emit 65,536 bytes; a 257th meets the full output
FullSection == Repeat(256, LINE_FULL) \o <<OPS_MARKER>>
OverfullSection == Repeat(257, LINE_FULL) \o <<OPS_MARKER>>

LineBuffers ==
    SeqsUpTo(CandidateLines, MaxLines) \cup {FullSection, OverfullSection}

\* characters of the generated tokens: 0 1 2 5 6 F b x ' + -
NumberAlphabet == {48, 49, 50, 53, 54, 70, 98, 120, QUOTE, PLUS, MINUS}

\* tokens longer than MaxToken
LongTokens ==
    { <<98, 48, 48, 48, 48, 48, 48, 48, 48>>,        \* "b00000000"
      <<98, 49, 49, 49, 49, 49, 49, 49, 49>>,        \* "b11111111"
      <<98, 48, 48, 48, 48, 49, 49, 49, 49>>,        \* "b00001111"
      <<98, 48, 48, 48, 48, 48, 48, 48, 50>>,        \* "b00000002"
      <<98, 48, 48, 48, 48, 48, 48, 48>>,            \* "b0000000"
      <<98, 49, 48, 49, 48, 49, 48, 49, 48, 48, 49, 49, 49>>,  \* "b101010100111"
      <<49, 48, 48, 48>>,                            \* "1000"
      <<48, 50, 53, 53>>,                            \* "0255"
      <<120, 49, 48, 48>>,                           \* "x100"
      <<120, 48, 70, 70>>,                           \* "x0FF"
      <<120, 70, 48, 48, 49>>,                       \* "xF001"
      <<39, 115, 32, 39>>,                           \* "'s '"
      <<39, 195, 169, 39>> }                         \* a quoted two-byte character

\* 'c' for every ASCII character c
CharLiterals == {<<QUOTE, c, QUOTE>> : c \in 0..127}

\* operand texts handed to Parameters::parse
OperandTexts ==
    CharLiterals \cup
    { <<>>,
      <<35>>,                              \* "#"
      <<49, 48>>,                          \* "10"
      <<32, 49, 48, 32>>,                  \* " 10 "
      <<53, 32, 35, 32, 99>>,              \* "5 # c"
      <<53, 35>>,                          \* "5#"
      <<120, 70, 49>>,                     \* "xF1"
      <<50, 53, 54>>,                      \* "256"
      <<100, 48>>,                         \* "d0"
      <<68, 51>>,                          \* "D3"
      <<97, 67, 99>>,                      \* "aCc"
      <<100, 53>>,                         \* "d5"
      <<97, 48>>,                          \* "a0"
      <<65, 49>>,                          \* "A1"
      <<64, 49, 48>>,                      \* "@10"
      <<64, 120, 70, 70, 48, 48>>,         \* "@xFF00"
      <<64, 54, 53, 53, 51, 54>>,          \* "@65536"
      <<64, 120>>,                         \* "@x"
      <<64, 116>>,                         \* "@t"
      <<115, 116, 97, 114, 116>>,          \* "start"
      <<116, 35, 49>> }                    \* "t#1"

SPACE == 32

\* the tokens joined by single spaces
RECURSIVE Join(_)
Join(tokens) ==
    IF tokens = <<>> THEN <<>>
    ELSE IF Len(tokens) = 1 THEN tokens[1]
    ELSE tokens[1] \o <<SPACE>> \o Join(Tail(tokens))

Mnemonics ==
    { <<99, 112, 121>>,          \* "cpy"
      <<67, 112, 89>>,           \* "CpY"
      <<108, 100>>,              \* "ld"
      <<106, 109, 112>>,         \* "jmp"
      <<105, 110, 99>>,          \* "inc"
      <<112, 114, 116, 99>>,     \* "prtc"
      <<104, 97, 108, 116>>,     \* "halt"
      <<110, 111, 112>> }        \* "nop", not in the catalogue

OperandTokens ==
    { <<97, 99, 99>>,            \* "acc"
      <<100, 48>>,               \* "d0"
      <<97, 49>>,                \* "a1"
      <<53>>,                    \* "5"
      <<120, 70, 49>>,           \* "xF1"
      <<39, 32, 39>>,            \* "' '"
      <<64, 49, 48>>,            \* "@10"
      <<116, 101, 115, 116>> }   \* "test"

\* lines of four operands, and lines with other spacing
LongLines ==
    { Join(<<(<<108, 100>>), (<<97, 49>>), (<<116, 101, 115, 116>>), (<<100, 51>>), (<<120, 70, 49>>)>>),  \* "ld a1 test d3 xF1"
      Join(<<(<<108, 100>>), (<<97, 49>>), (<<116, 101, 115, 116>>), (<<120, 70, 49>>), (<<100, 51>>)>>),  \* "ld a1 test xF1 d3"
      Join(<<(<<108, 100>>), (<<97, 49>>), (<<116, 101, 115, 116>>), (<<100, 51>>), (<<100, 51>>)>>),      \* "ld a1 test d3 d3"
      <<32, 32, 99, 112, 121, 9, 97, 99, 99, 32, 32, 53, 32>>,   \* "  cpy<tab>acc  5 "
      <<112, 114, 116, 99, 32, 39, 97, 39, 39, 98, 39>>,         \* "prtc 'a''b'"
      <<>>,
      <<32, 32>> }

SourceLines ==
    {Join(<<m>> \o ops) : m \in Mnemonics, ops \in SeqsUpTo(OperandTokens, MaxOperands)}
    \cup LongLines

NumberTokens ==
    SeqsUpTo(NumberAlphabet, MaxToken) \cup LongTokens \cup CharLiterals

\* registers as set after setup(ops) in the two tests, and a setting in
\* which every register pushed holds a different value
RegisterSettings ==
    { [acc |-> 0, data_reg |-> <<0, 32, 0, 0>>, addr_reg |-> <<0, 13>>],
      [acc |-> 0, data_reg |-> <<0, 0, 0, 0>>, addr_reg |-> <<66, 259>>],
      [acc |-> 5, data_reg |-> <<17, 32, 0, 0>>, addr_reg |-> <<66, 259>>] }

\* the stack instructions programs are built from
StackInstrs ==
    { <<PUSH_VAL, 73>>, <<PUSH_REG, REG_D1>>, <<PUSH_REG, REG_A1>>,
      <<POP_REG, REG_ACC>>, <<POP_REG, REG_D0>>, <<POP_REG, REG_A0>> }

\* bytes an instruction adds to the stack (negative: removes)
StackDelta(ins) ==
    IF ins[1] = PUSH_VAL THEN 1
    ELSE IF ins[1] = PUSH_REG THEN RegWidth(ins[2])
    ELSE 0 - RegWidth(ins[2])

RECURSIVE StackDepth(_, _)
StackDepth(prog, n) ==
    IF n = 0 THEN 0 ELSE StackDepth(prog, n - 1) + StackDelta(prog[n])

\* no POP reads above what has been pushed
NoUnderflow(prog) == \A n \in 1..Len(prog) : StackDepth(prog, n) >= 0

RECURSIVE Flatten(_)
Flatten(prog) ==
    IF prog = <<>> THEN <<>> ELSE Head(prog) \o Flatten(Tail(prog))

\* the stack instructions of test_multiple_stack_ops (lines 11-13)
TEST_STACK_OPS == <<PUSH_VAL, 73, PUSH_REG, REG_D1, POP_REG, REG_ACC>>

\* the program of test_multiple_addr_stack_ops (lines 39-44)
TEST_ADDR_STACK_OPS ==
    <<PUSH_VAL, 73, PUSH_REG, REG_D0, PUSH_REG, REG_A1,
      POP_REG, REG_A0, POP_REG, REG_ACC, POP_REG, REG_ACC>>

DevicePrograms ==
    {Flatten(prog) : prog \in {q \in SeqsUpTo(StackInstrs, MaxInstrs) : NoUnderflow(q)}}
        \cup {TEST_STACK_OPS, TEST_ADDR_STACK_OPS}

----------------------------------------------------------------------------
(* Initial states *)

IdleModel == ProgramModel(<<>>, <<>>, <<>>, EmptyMap, EmptyMap, EmptyMap)

GenIdle ==
    /\ output = <<>>
    /\ offset = 0
    /\ labels = EmptyMap
    /\ op_idx = 0
    /\ ops_output = EmptyOpsOutput
    /\ string_bytes = <<>>
    /\ string_addresses = EmptyMap
    /\ data_bytes = <<>>
    /\ data_addresses = EmptyMap

CsIdle ==
    /\ line = <<>>
    /\ mapping = EmptyMap
    /\ cs_output = <<>>

CsUnused ==
    /\ cs_input = <<>>
    /\ lines = <<>>
    /\ keep_whitespace = FALSE
    /\ CsIdle

GenUnused ==
    /\ program_model = IdleModel
    /\ GenIdle

\* the device before setup
NoSetup == [ops |-> <<>>, acc |-> 0, data_reg |-> <<0, 0, 0, 0>>, addr_reg |-> <<0, 0>>]

NoDevice ==
    [pc |-> 0, acc |-> 0, data_reg |-> <<0, 0, 0, 0>>, addr_reg |-> <<0, 0>>,
     sp |-> SP_START, mem |-> EmptyMap]

DevUnused ==
    /\ setup = NoSetup
    /\ device = NoDevice

LangUnused ==
    /\ input = <<>>
    /\ kind = "None"
    /\ parsed = NoParam

InitGenerate ==
    /\ unit = "generate_byte_code"
    /\ pc = "header"
    /\ result = "running"
    /\ program_model \in ProgramModels
    /\ GenIdle
    /\ CsUnused
    /\ LangUnused
    /\ DevUnused

InitCompileStrings ==
    /\ unit = "compile_strings"
    /\ pc = "remove_first"
    /\ result = "running"
    /\ GenUnused
    /\ cs_input \in LineBuffers
    /\ lines = cs_input
    /\ keep_whitespace \in BOOLEAN
    /\ CsIdle
    /\ LangUnused
    /\ DevUnused

InitParseNumber ==
    /\ unit = "parse_number"
    /\ pc = "call"
    /\ result = "running"
    /\ GenUnused
    /\ CsUnused
    /\ input \in NumberTokens
    /\ kind = "None"
    /\ parsed = NoParam
    /\ DevUnused

InitParametersParse ==
    /\ unit = "Parameters::parse"
    /\ pc = "call"
    /\ result = "running"
    /\ GenUnused
    /\ CsUnused
    /\ input \in OperandTexts
    /\ kind \in ParameterKinds
    /\ parsed = NoParam
    /\ DevUnused

InitParseLine ==
    /\ unit = "parse_line"
    /\ pc = "call"
    /\ result = "running"
    /\ GenUnused
    /\ CsUnused
    /\ input \in SourceLines
    /\ kind = "None"
    /\ parsed = NoSelection
    /\ DevUnused

\* generate_ops_bytes(ops, offset, labels) called directly
InitGenerateOps ==
    /\ unit = "generate_ops_bytes"
    /\ pc = "convert_labels"
    /\ result = "running"
    /\ program_model \in OpsModels
    /\ offset \in OffsetArgs
    /\ output = <<>>
    /\ labels = EmptyMap
    /\ op_idx = 0
    /\ ops_output = EmptyOpsOutput
    /\ string_bytes = <<>>
    /\ string_addresses = EmptyMap
    /\ data_bytes = <<>>
    /\ data_addresses = EmptyMap
    /\ CsUnused
    /\ LangUnused
    /\ DevUnused

\* update_addresses(bytes, targets, sources) called directly; the three
\* arguments are held in output, ops_output.string_targets and
\* string_addresses
InitUpdateAddresses ==
    /\ unit = "update_addresses"
    /\ pc = "call"
    /\ result = "running"
    /\ program_model = IdleModel
    /\ \E call \in UpdateCalls :
          /\ output = call.bytes
          /\ ops_output = [EmptyOpsOutput EXCEPT !.string_targets = call.targets]
          /\ string_addresses = call.sources
    /\ offset = 0
    /\ labels = EmptyMap
    /\ op_idx = 0
    /\ string_bytes = <<>>
    /\ data_bytes = <<>>
    /\ data_addresses = EmptyMap
    /\ CsUnused
    /\ LangUnused
    /\ DevUnused

\* setup(ops) followed by the assignment of the registers
InitDevice ==
    /\ unit = "device"
    /\ pc = "run"
    /\ result = "running"
    /\ \E ops \in DevicePrograms, regs \in RegisterSettings :
          /\ setup = [ops |-> ops, acc |-> regs.acc, data_reg |-> regs.data_reg,
                      addr_reg |-> regs.addr_reg]
          /\ device = [NoDevice EXCEPT !.acc = regs.acc,
                                       !.data_reg = regs.data_reg,
                                       !.addr_reg = regs.addr_reg]
    /\ GenUnused
    /\ CsUnused
    /\ LangUnused

Init ==
    \/ InitGenerate
    \/ InitGenerateOps
    \/ InitUpdateAddresses
    \/ InitCompileStrings
    \/ InitParseNumber
    \/ InitParametersParse
    \/ InitParseLine
    \/ InitDevice

----------------------------------------------------------------------------
(* generate_byte_code *)

\* the entry points that run the loop of generate_ops_bytes
OpsUnits == {"generate_byte_code", "generate_ops_bytes"}

\* lines 11-15
GenHeader ==
    /\ unit = "generate_byte_code" /\ pc = "header"
    /\ output' = <<TAPE_HEADER_1, TAPE_HEADER_2, PRG_VERSION>>
                 \o <<U8(Len(program_model.name))>> \o program_model.name
                 \o <<U8(Len(program_model.version))>> \o program_model.version
    /\ pc' = "convert_labels"
    /\ UNCHANGED <<unit, result, program_model, offset, labels, op_idx,
                   ops_output, string_bytes, string_addresses, data_bytes,
                   data_addresses>>
    /\ UNCHANGED csVars
    /\ UNCHANGED langVars
    /\ UNCHANGED devVars

\* lines 17-18 and 70-71: the call of generate_ops_bytes up to its loop;
\* unwrap() of an absent definition panics
ConvertLabels ==
    /\ unit \in OpsUnits /\ pc = "convert_labels"
    /\ offset' = IF unit = "generate_byte_code" THEN Len(output) + 2 ELSE offset
    /\ ops_output' = EmptyOpsOutput
    /\ op_idx' = 0
    /\ IF \E k \in DOMAIN program_model.labels :
              ~program_model.labels[k].definition.some
       THEN /\ result' = "panic"
            /\ pc' = "done"
            /\ labels' = labels
       ELSE /\ \E order \in IterationOrders(DOMAIN program_model.labels) :
                  labels' = ConvertLabelMapToLinenum(program_model.labels, order)
            /\ pc' = "ops"
            /\ result' = result
    /\ UNCHANGED <<unit, program_model, output, string_bytes, string_addresses,
                   data_bytes, data_addresses>>
    /\ UNCHANGED csVars
    /\ UNCHANGED langVars
    /\ UNCHANGED devVars

\* lines 72-105: one iteration of `for op in ops`
GenerateOpsStep ==
    /\ unit \in OpsUnits /\ pc = "ops"
    /\ op_idx < Len(program_model.ops)
    /\ LET op == program_model.ops[op_idx + 1]
           bound == [ops_output EXCEPT
                        !.label_addresses = BindLabel(labels, ops_output, op)]
       IN  /\ labels' = PendingAfter(labels, op)
           /\ ops_output' = EmitOp(bound, op, offset)
    /\ op_idx' = op_idx + 1
    /\ UNCHANGED <<unit, pc, result, program_model, output, offset,
                   string_bytes, string_addresses, data_bytes, data_addresses>>
    /\ UNCHANGED csVars
    /\ UNCHANGED langVars
    /\ UNCHANGED devVars

\* line 107, generate_ops_bytes called on its own (as in test_target_gen)
GenerateOpsReturn ==
    /\ unit = "generate_ops_bytes" /\ pc = "ops"
    /\ op_idx = Len(program_model.ops)
    /\ pc' = "done"
    /\ result' = "ok"
    /\ UNCHANGED <<unit>>
    /\ UNCHANGED genVars
    /\ UNCHANGED csVars
    /\ UNCHANGED langVars
    /\ UNCHANGED devVars

\* lines 107 and 20-21
GenerateOpsDone ==
    /\ unit = "generate_byte_code" /\ pc = "ops"
    /\ op_idx = Len(program_model.ops)
    /\ output' = output \o ToBeBytes(U16(Len(ops_output.bytes))) \o ops_output.bytes
    /\ pc' = "strings"
    /\ UNCHANGED <<unit, result, program_model, offset, labels, op_idx,
                   ops_output, string_bytes, string_addresses, data_bytes,
                   data_addresses>>
    /\ UNCHANGED csVars
    /\ UNCHANGED langVars
    /\ UNCHANGED devVars

\* lines 23-26
GenerateStrings ==
    /\ unit = "generate_byte_code" /\ pc = "strings"
    /\ \E order \in IterationOrders(DOMAIN program_model.strings) :
          LET r == GenerateStringBytes(program_model.strings, order)
          IN  IF r.ok
              THEN /\ string_bytes' = r.bytes
                   /\ string_addresses' = r.addresses
                   /\ output' = output \o ToBeBytes(U16(Len(r.bytes))) \o r.bytes
                   /\ pc' = "data"
                   /\ result' = result
              ELSE /\ result' = "err"
                   /\ pc' = "done"
                   /\ UNCHANGED <<string_bytes, string_addresses, output>>
    /\ UNCHANGED <<unit, program_model, offset, labels, op_idx, ops_output,
                   data_bytes, data_addresses>>
    /\ UNCHANGED csVars
    /\ UNCHANGED langVars
    /\ UNCHANGED devVars

\* lines 28-30
GenerateData ==
    /\ unit = "generate_byte_code" /\ pc = "data"
    /\ \E order \in IterationOrders(DOMAIN program_model.data) :
          LET r == GenerateDataBytes(program_model.data, order)
          IN  IF r.ok
              THEN /\ data_bytes' = r.bytes
                   /\ data_addresses' = r.addresses
                   /\ output' = output \o r.bytes
                   /\ pc' = "patch_strings"
                   /\ result' = result
              ELSE /\ result' = "err"
                   /\ pc' = "done"
                   /\ UNCHANGED <<data_bytes, data_addresses, output>>
    /\ UNCHANGED <<unit, program_model, offset, labels, op_idx, ops_output,
                   string_bytes, string_addresses>>
    /\ UNCHANGED csVars
    /\ UNCHANGED langVars
    /\ UNCHANGED devVars

\* one call of update_addresses from generate_byte_code
Patch(targets, sources, next_pc, next_result) ==
    /\ \E order \in IterationOrders(DOMAIN sources), checks \in BOOLEAN :
          LET r == UpdateAddresses(output, targets, sources, order, checks)
          IN  IF r.ok
              THEN /\ output' = r.bytes
                   /\ pc' = next_pc
                   /\ result' = next_result
              ELSE /\ result' = "panic"
                   /\ pc' = "done"
                   /\ output' = output
    /\ UNCHANGED <<unit, program_model, offset, labels, op_idx, ops_output,
                   string_bytes, string_addresses, data_bytes, data_addresses>>
    /\ UNCHANGED csVars
    /\ UNCHANGED langVars
    /\ UNCHANGED devVars

\* line 32
PatchStrings ==
    /\ unit = "generate_byte_code" /\ pc = "patch_strings"
    /\ Patch(ops_output.string_targets, string_addresses, "patch_data", result)

\* line 33
PatchData ==
    /\ unit = "generate_byte_code" /\ pc = "patch_data"
    /\ Patch(ops_output.data_targets, data_addresses, "patch_labels", result)

\* lines 39-54, update_addresses called on its own (as in
\* test_update_addresses_single)
UpdateAddressesCall ==
    /\ unit = "update_addresses" /\ pc = "call"
    /\ Patch(ops_output.string_targets, string_addresses, "done", "ok")

\* lines 34-36
PatchLabels ==
    /\ unit = "generate_byte_code" /\ pc = "patch_labels"
    /\ Patch(ops_output.label_targets, ops_output.label_addresses, "done", "ok")

----------------------------------------------------------------------------
(* compile_strings *)

\* line 11: Vec::remove(0) panics on an empty vector
RemoveFirst ==
    /\ unit = "compile_strings" /\ pc = "remove_first"
    /\ IF lines = <<>>
       THEN /\ result' = "panic"
            /\ pc' = "done"
            /\ UNCHANGED <<line, lines>>
       ELSE /\ line' = Head(lines)
            /\ lines' = Tail(lines)
            /\ pc' = "loop"
            /\ result' = result
    /\ UNCHANGED <<unit, cs_input, keep_whitespace, mapping, cs_output>>
    /\ UNCHANGED genVars
    /\ UNCHANGED langVars
    /\ UNCHANGED devVars

\* lines 12-52: one iteration of `while line != ".ops"`
CompileLine ==
    /\ unit = "compile_strings" /\ pc = "loop"
    /\ line # OPS_MARKER
    /\ IF LineRejected(line, keep_whitespace, cs_output)
       THEN /\ result' = "err"
            /\ pc' = "done"
            /\ UNCHANGED <<line, lines, mapping, cs_output>>
       ELSE /\ mapping' = MapInsert(mapping, KeyOf(line), U16(Len(cs_output)))
            /\ cs_output' = cs_output
                            \o <<U8(Len(ContentOf(line, keep_whitespace)))>>
                            \o ContentOf(line, keep_whitespace)
            /\ IF lines = <<>>
               THEN /\ result' = "err"
                    /\ pc' = "done"
                    /\ UNCHANGED <<line, lines>>
               ELSE /\ line' = Head(lines)
                    /\ lines' = Tail(lines)
                    /\ UNCHANGED <<pc, result>>
    /\ UNCHANGED <<unit, cs_input, keep_whitespace>>
    /\ UNCHANGED genVars
    /\ UNCHANGED langVars
    /\ UNCHANGED devVars

\* lines 54-56
CompileDone ==
    /\ unit = "compile_strings" /\ pc = "loop"
    /\ line = OPS_MARKER
    /\ result' = "ok"
    /\ pc' = "done"
    /\ UNCHANGED <<unit, cs_input, lines, keep_whitespace, line, mapping, cs_output>>
    /\ UNCHANGED genVars
    /\ UNCHANGED langVars
    /\ UNCHANGED devVars

----------------------------------------------------------------------------
(* the parser *)

\* a call of parse_number
ParseNumberCall ==
    /\ unit = "parse_number" /\ pc = "call"
    /\ result' = IF ParseNumber(input).ok THEN "ok" ELSE "err"
    /\ parsed' = ParseNumber(input).param
    /\ pc' = "done"
    /\ UNCHANGED <<unit, input, kind>>
    /\ UNCHANGED genVars
    /\ UNCHANGED csVars
    /\ UNCHANGED devVars

\* a call of Parameters::parse
ParametersParseCall ==
    /\ unit = "Parameters::parse" /\ pc = "call"
    /\ result' = IF ParametersParse(kind, input).ok THEN "ok" ELSE "err"
    /\ parsed' = ParametersParse(kind, input).param
    /\ pc' = "done"
    /\ UNCHANGED <<unit, input, kind>>
    /\ UNCHANGED genVars
    /\ UNCHANGED csVars
    /\ UNCHANGED devVars

\* a call of parse_line
ParseLineCall ==
    /\ unit = "parse_line" /\ pc = "call"
    /\ result' = ParseLine(input).result
    /\ parsed' = ParseLine(input).value
    /\ pc' = "done"
    /\ UNCHANGED <<unit, input, kind>>
    /\ UNCHANGED genVars
    /\ UNCHANGED csVars
    /\ UNCHANGED devVars

----------------------------------------------------------------------------

----------------------------------------------------------------------------
(* the device *)

\* device.step over a PUSH or POP instruction
DeviceStep ==
    /\ unit = "device" /\ pc = "run"
    /\ device.pc < Len(setup.ops)
    /\ device' = Execute(device, setup.ops)
    /\ UNCHANGED <<unit, pc, result, setup>>
    /\ UNCHANGED genVars
    /\ UNCHANGED csVars
    /\ UNCHANGED langVars

Next ==
    \/ GenHeader
    \/ ConvertLabels
    \/ GenerateOpsStep
    \/ GenerateOpsReturn
    \/ GenerateOpsDone
    \/ GenerateStrings
    \/ GenerateData
    \/ PatchStrings
    \/ PatchData
    \/ PatchLabels
    \/ UpdateAddressesCall
    \/ RemoveFirst
    \/ CompileLine
    \/ CompileDone
    \/ ParseNumberCall
    \/ ParametersParseCall
    \/ ParseLineCall
    \/ DeviceStep

Spec == Init /\ [][Next]_vars

----------------------------------------------------------------------------
(* Vocabulary of the properties *)

GenDone == unit = "generate_byte_code" /\ pc = "done"
GenOk == GenDone /\ result = "ok"
CsDone == unit = "compile_strings" /\ pc = "done"
CsOk == CsDone /\ result = "ok"

\* s[i], or 0 outside the sequence
ByteAt(s, i) == IF i \in DOMAIN s THEN s[i] ELSE 0

\* the big-endian 16-bit value at 0-based offset o of s
ReadU16Be(s, o) == ByteAt(s, o + 1) * 256 + ByteAt(s, o + 2)

\* the bytes of s at 0-based offsets o .. o + n - 1
Slice(s, o, n) == SubSeq(s, o + 1, o + n)

\* true size of the tape before the ops-segment length field
HeaderLen(pm) == 3 + 1 + Len(pm.name) + 1 + Len(pm.version)

\* true offset in the ops segment at which the i-th op starts
RECURSIVE OpStart(_, _)
OpStart(ops, i) ==
    IF i <= 1 THEN 0 ELSE OpStart(ops, i - 1) + Len(ToBytes(ops[i - 1]))

\* true size of the ops segment
OpsLen(ops) == OpStart(ops, Len(ops) + 1)

\* true offset inside its instruction of the p-th operand
RECURSIVE OperandStart(_, _)
OperandStart(op, p) ==
    IF p <= 1 THEN 1
    ELSE OperandStart(op, p - 1) + Len(ParamBytes(op.params[p - 1]))

\* true offset in the tape of operand p of op i
OperandPos(pm, i, p) ==
    HeaderLen(pm) + 2 + OpStart(pm.ops, i) + OperandStart(pm.ops[i], p)

\* the reference sites of a program: <<op index, operand index>>
Sites(pm) ==
    {site \in (DOMAIN pm.ops) \X (1..4) :
        /\ site[2] \in DOMAIN pm.ops[site[1]].params
        /\ pm.ops[site[1]].params[site[2]].kind \in SymbolicKinds}

SiteParam(pm, site) == pm.ops[site[1]].params[site[2]]

----------------------------------------------------------------------------
(* C1: tape layout *)

\* the opcode and every non-symbolic operand of every op sit, in model order,
\* at their place in the ops segment starting at 0-based offset base
OpsSegmentAt(tape, base, ops) ==
    \A i \in DOMAIN ops :
        /\ ByteAt(tape, base + OpStart(ops, i) + 1) = ops[i].opcode
        /\ \A p \in DOMAIN ops[i].params :
              ops[i].params[p].kind \notin SymbolicKinds =>
                 Slice(tape, base + OpStart(ops, i) + OperandStart(ops[i], p),
                       Len(ParamBytes(ops[i].params[p])))
                    = ParamBytes(ops[i].params[p])

\* C1: whenever generate_byte_code succeeds, the tape is header bytes, the
\* name-length byte, the name, the version-length byte, the version, the
\* big-endian ops-segment length, the ops segment in model order, the
\* big-endian strings-segment length, the strings segment and the data
\* segment, and nothing else.
C1_TapeLayout ==
    GenOk =>
        LET pm == program_model
            n == Len(pm.name)
            v == Len(pm.version)
            o == OpsLen(pm.ops)
            s == Len(string_bytes)
            d == Len(data_bytes)
        IN  /\ Len(output) = 3 + 1 + n + 1 + v + 2 + o + 2 + s + d
            /\ Slice(output, 0, 3) = <<TAPE_HEADER_1, TAPE_HEADER_2, PRG_VERSION>>
            /\ output[4] = n
            /\ Slice(output, 4, n) = pm.name
            /\ output[4 + n + 1] = v
            /\ Slice(output, 5 + n, v) = pm.version
            /\ ReadU16Be(output, 5 + n + v) = o
            /\ OpsSegmentAt(output, 7 + n + v, pm.ops)
            /\ ReadU16Be(output, 7 + n + v + o) = s
            /\ Slice(output, 9 + n + v + o, s) = string_bytes
            /\ Slice(output, 9 + n + v + o + s, d) = data_bytes

----------------------------------------------------------------------------
(* C8: length fields *)

\* C8: in every tape generate_byte_code returns, the name-length byte, the
\* version-length byte, the ops-length field and the strings-length field,
\* read from the tape itself, are the true lengths of what they prefix, so
\* that the tape is 9 + nameLen + verLen + opsLen + strLen + dataLen long.
C8_LengthFields ==
    GenOk =>
        LET nameLen == ByteAt(output, 4)
            verLen == ByteAt(output, 4 + nameLen + 1)
            opsLen == ReadU16Be(output, 5 + nameLen + verLen)
            strLen == ReadU16Be(output, 7 + nameLen + verLen + opsLen)
        IN  /\ nameLen = Len(program_model.name)
            /\ verLen = Len(program_model.version)
            /\ opsLen = Len(ops_output.bytes)
            /\ strLen = Len(string_bytes)
            /\ Len(output) = 9 + nameLen + verLen + opsLen + strLen + Len(data_bytes)

----------------------------------------------------------------------------
(* C2: patch correctness *)

\* bytes that the entries of tbl sorted before key occupy in their segment,
\* each entry preceded by `prefix` length bytes
RECURSIVE SizeBefore(_, _, _, _)
SizeBefore(tbl, keys, key, prefix) ==
    IF keys = {} THEN 0
    ELSE LET k == CHOOSE x \in keys : TRUE
         IN  (IF StrLess(k, key) THEN prefix + Len(tbl[k].content) ELSE 0)
             + SizeBefore(tbl, keys \ {k}, key, prefix)

\* offset of a string entry inside the strings segment
StringOffset(pm, key) == SizeBefore(pm.strings, DOMAIN pm.strings, key, 1)

\* offset of a data entry inside the data segment
DataOffset(pm, key) == SizeBefore(pm.data, DOMAIN pm.data, key, 0)

----------------------------------------------------------------------------
(* C3: undefined symbols *)

\* some operand names a symbol that has no definition
UndefinedReference(pm) ==
    \E site \in Sites(pm) :
        LET p == SiteParam(pm, site)
        IN  \/ p.kind = "StrKey" /\ p.key \notin DOMAIN pm.strings
            \/ p.kind = "DataKey" /\ p.key \notin DOMAIN pm.data
            \/ p.kind = "Label" /\ (\/ p.key \notin DOMAIN pm.labels
                                   \/ ~pm.labels[p.key].definition.some)

\* C3: when an op references a label, string key or data key that has no
\* definition, generate_byte_code ends with an error: it neither returns a
\* tape nor panics.
C3_UndefinedSymbolIsError ==
    (GenDone /\ UndefinedReference(program_model)) => result = "err"

----------------------------------------------------------------------------
(* C4: label binding *)

\* every label is defined, on a line of its own
LabelsOnOwnLines(pm) ==
    /\ \A k \in DOMAIN pm.labels : pm.labels[k].definition.some
    /\ \A k1, k2 \in DOMAIN pm.labels :
          k1 # k2 => pm.labels[k1].definition.line_num
                       # pm.labels[k2].definition.line_num

\* index of the first op whose line number is at least n
FirstOpFrom(ops, n) ==
    CHOOSE i \in DOMAIN ops :
        /\ ops[i].line_num >= n
        /\ \A j \in DOMAIN ops : ops[j].line_num >= n => i <= j

\* C4: once an op has been emitted, every label defined on a line at or
\* before that op's line has left the pending set and is bound to the offset
\* of the first op at or after its definition; two labels on adjacent lines
\* before the same op therefore share that op's offset.
C4_LabelsBoundBeforeOp ==
    (/\ unit = "generate_byte_code" /\ pc = "ops" /\ op_idx >= 1
     /\ LabelsOnOwnLines(program_model))
    => \A k \in DOMAIN program_model.labels :
          LET pm == program_model
              n == pm.labels[k].definition.line_num
          IN  n <= pm.ops[op_idx].line_num =>
                 /\ n \notin DOMAIN labels
                 /\ k \in DOMAIN ops_output.label_addresses
                 /\ ops_output.label_addresses[k]
                       = OpStart(pm.ops, FirstOpFrom(pm.ops, n))

----------------------------------------------------------------------------
(* C5: determinism *)

RECURSIVE OpsLoop(_, _, _, _, _)
OpsLoop(ops, i, off, lbls, out) ==
    IF i > Len(ops) THEN out
    ELSE OpsLoop(ops, i + 1, off, PendingAfter(lbls, ops[i]),
                 EmitOp([out EXCEPT !.label_addresses = BindLabel(lbls, out, ops[i])],
                        ops[i], off))

\* one fixed order of draining a hash map with key set S
FixedOrder(S) == CHOOSE o \in IterationOrders(S) : TRUE

\* the tape generate_byte_code builds when every hash map is drained in its
\* fixed order (for models on which it succeeds)
ReferenceTape(pm) ==
    LET head == <<TAPE_HEADER_1, TAPE_HEADER_2, PRG_VERSION>>
                \o <<U8(Len(pm.name))>> \o pm.name
                \o <<U8(Len(pm.version))>> \o pm.version
        oo == OpsLoop(pm.ops, 1, Len(head) + 2,
                      ConvertLabelMapToLinenum(pm.labels, FixedOrder(DOMAIN pm.labels)),
                      EmptyOpsOutput)
        sr == GenerateStringBytes(pm.strings, FixedOrder(DOMAIN pm.strings))
        dr == GenerateDataBytes(pm.data, FixedOrder(DOMAIN pm.data))
        raw == head \o ToBeBytes(U16(Len(oo.bytes))) \o oo.bytes
               \o ToBeBytes(U16(Len(sr.bytes))) \o sr.bytes \o dr.bytes
        p1 == UpdateAddresses(raw, oo.string_targets, sr.addresses,
                              FixedOrder(DOMAIN sr.addresses), FALSE)
        p2 == UpdateAddresses(p1.bytes, oo.data_targets, dr.addresses,
                              FixedOrder(DOMAIN dr.addresses), FALSE)
        p3 == UpdateAddresses(p2.bytes, oo.label_targets, oo.label_addresses,
                              FixedOrder(DOMAIN oo.label_addresses), FALSE)
    IN  p3.bytes

\* C5: the tape generate_byte_code returns for a ProgramModel is the same
\* whatever order its hash maps are drained in: every successful run returns
\* the tape of the run that drains them in the fixed order.
C5_Deterministic ==
    GenOk => output = ReferenceTape(program_model)

----------------------------------------------------------------------------
(* C6: key order of the address tables *)

\* keys with a smaller address never sort after keys with a larger one,
\* and the first key in lexicographic order has address 0
OrderedByKey(addresses, strict) ==
    /\ \A k1, k2 \in DOMAIN addresses :
          StrLess(k1, k2) =>
             IF strict THEN addresses[k1] < addresses[k2]
                       ELSE addresses[k1] <= addresses[k2]
    /\ \A k \in DOMAIN addresses :
          (\A k2 \in DOMAIN addresses : ~StrLess(k2, k)) => addresses[k] = 0

\* index of the first ".ops" line of the buffer, one past its end if none
FirstMarker(buf) ==
    IF \E i \in DOMAIN buf : buf[i] = OPS_MARKER
    THEN CHOOSE i \in DOMAIN buf :
            buf[i] = OPS_MARKER /\ \A j \in 1..(i - 1) : buf[j] # OPS_MARKER
    ELSE Len(buf) + 1

\* the lines of the buffer that precede its first ".ops" line
SectionLines(buf) == SubSeq(buf, 1, FirstMarker(buf) - 1)

\* a line `key=content` whose trimmed key matches [A-Za-z0-9_]+
IsEntry(ln) ==
    FindEquals(ln) # 0 /\ KeyOf(ln) # <<>> /\ ~InvalidKey(KeyOf(ln))

\* every line of the strings section is an entry, and no key is defined twice
WellFormedSection(buf) ==
    LET sec == SectionLines(buf)
    IN  /\ \A i \in DOMAIN sec : IsEntry(sec[i])
        /\ \A i, j \in DOMAIN sec : i # j => KeyOf(sec[i]) # KeyOf(sec[j])

\* index in the section of the last line that defines key
LastDefinition(section, key) ==
    CHOOSE i \in DOMAIN section :
        /\ FindEquals(section[i]) # 0 /\ KeyOf(section[i]) = key
        /\ \A j \in DOMAIN section :
              (FindEquals(section[j]) # 0 /\ KeyOf(section[j]) = key) => j <= i

\* C6 (as amended): the address tables of generate_string_bytes and
\* generate_data_bytes, read by ascending address, list their keys in
\* lexicographic order, the first key at address 0; the table of
\* compile_strings lists its keys in the order of their last definition in
\* the input.
C6_KeyOrder ==
    /\ unit = "generate_byte_code" =>
          /\ OrderedByKey(string_addresses, TRUE)
          /\ OrderedByKey(data_addresses, FALSE)
    /\ CsOk =>
          \A k1, k2 \in DOMAIN mapping :
              LastDefinition(SectionLines(cs_input), k1)
                 < LastDefinition(SectionLines(cs_input), k2)
              => mapping[k1] < mapping[k2]

\* C6 (as claimed): every address table of string emission and of data
\* emission, that of compile_strings included (for a section of entries
\* with distinct keys), lists its keys in lexicographic order when read by
\* ascending address, the first key at address 0.
C6_KeyOrderEveryTable ==
    /\ unit = "generate_byte_code" =>
          /\ OrderedByKey(string_addresses, TRUE)
          /\ OrderedByKey(data_addresses, FALSE)
    /\ (CsOk /\ WellFormedSection(cs_input)) => OrderedByKey(mapping, TRUE)

\* a returned tape whose string table holds "a", "ab" and "b" and whose data
\* table holds "a" and "b"
C6_Witness ==
    /\ GenOk
    /\ DOMAIN string_addresses = {KA, KAB, KB}
    /\ string_addresses[KB] > string_addresses[KAB]
    /\ string_addresses[KAB] > 0
    /\ DOMAIN data_addresses = {KA, KB}
    /\ data_addresses[KB] > 0

----------------------------------------------------------------------------
(* C7: string address round trip *)

\* the entry at address a of segment seg is content behind its length byte
EntryAt(seg, a, content) ==
    /\ ByteAt(seg, a + 1) = Len(content)
    /\ Slice(seg, a + 1, Len(content)) = content

\* C7: for every key that generate_string_bytes or compile_strings maps to
\* an address, the byte at that address of the emitted segment is the length
\* of the key's content and the bytes after it are the content.
C7_StringRoundTrip ==
    /\ GenOk =>
          \A k \in DOMAIN string_addresses :
              EntryAt(string_bytes, string_addresses[k],
                      program_model.strings[k].content)
    /\ CsOk =>
          \A k \in DOMAIN mapping :
              LET sec == SectionLines(cs_input)
              IN  EntryAt(cs_output, mapping[k],
                          ContentOf(sec[LastDefinition(sec, k)], keep_whitespace))

----------------------------------------------------------------------------
(* C9: duplicate string keys *)

\* two entries of the strings section have the same trimmed key
DuplicateKeys(buf) ==
    LET sec == SectionLines(buf)
    IN  \E i, j \in DOMAIN sec :
           /\ i < j
           /\ IsEntry(sec[i]) /\ IsEntry(sec[j])
           /\ KeyOf(sec[i]) = KeyOf(sec[j])

\* C9: compile_strings never succeeds on a strings section in which two
\* entries have the same trimmed key.
C9_DuplicateKeyIsError ==
    (CsDone /\ DuplicateKeys(cs_input)) => result = "err"

----------------------------------------------------------------------------
(* C10: consumption of the line buffer *)

HasOpsMarker(buf) == \E i \in DOMAIN buf : buf[i] = OPS_MARKER

\* the lines of the buffer that follow its first ".ops" line
RECURSIVE AfterMarker(_)
AfterMarker(buf) ==
    IF buf = <<>> THEN <<>>
    ELSE IF Head(buf) = OPS_MARKER THEN Tail(buf)
    ELSE AfterMarker(Tail(buf))

\* C10: when compile_strings succeeds the caller's buffer holds exactly the
\* lines that followed the first ".ops" line, in order; for every buffer
\* without an ".ops" line, the empty buffer included, it returns an error.
C10_ConsumesThroughMarker ==
    CsDone =>
        /\ result = "ok" => lines = AfterMarker(cs_input)
        /\ ~HasOpsMarker(cs_input) => result = "err"

----------------------------------------------------------------------------
(* C11: key character set *)

\* a key of compile_strings as the specification admits it: [A-Za-z0-9_]+
ValidKey(key) == key # <<>> /\ ~InvalidKey(key)

\* C11: compile_strings never succeeds on a strings section that holds a
\* line `key=content` whose key, once trimmed, is empty or has a character
\* outside [A-Za-z0-9_]: it returns an error.
C11_KeyCharset ==
    (/\ CsDone
     /\ \E i \in DOMAIN SectionLines(cs_input) :
           LET ln == SectionLines(cs_input)[i]
           IN  FindEquals(ln) # 0 /\ ~ValidKey(KeyOf(ln)))
    => result = "err"

----------------------------------------------------------------------------
(* C12: the 255-byte limit of one entry *)

\* bytes that lines lo..hi of a section emit: a length byte and the content
RECURSIVE SizeBetween(_, _, _, _)
SizeBetween(sec, lo, hi, keep) ==
    IF lo > hi THEN 0
    ELSE IF lo = hi THEN 1 + Len(ContentOf(sec[lo], keep))
    ELSE SizeBetween(sec, lo, (lo + hi) \div 2, keep)
         + SizeBetween(sec, (lo + hi) \div 2 + 1, hi, keep)

\* bytes the first n lines of a section emit
SectionSize(sec, n, keep) == SizeBetween(sec, 1, n, keep)

\* seg holds the entries of the section in order and nothing else, each as
\* a length byte equal to the content length followed by the content
EntriesOf(seg, sec, keep) ==
    /\ Len(seg) = SectionSize(sec, Len(sec), keep)
    /\ \A i \in DOMAIN sec :
          EntryAt(seg, SectionSize(sec, i - 1, keep), ContentOf(sec[i], keep))

\* C12: compile_strings succeeds on a well-formed section that ends in
\* ".ops" when every content (trimmed unless keep_whitespace) has at most
\* 255 bytes, an entry of exactly 255 bytes included; it returns an error
\* when some entry has 256 bytes or more; so the segment it returns is, entry
\* by entry, a length byte equal to the content length followed by the
\* content.
C12_ContentLimit ==
    CsDone =>
        LET sec == SectionLines(cs_input)
            long == \E i \in DOMAIN sec :
                       FindEquals(sec[i]) # 0
                       /\ Len(ContentOf(sec[i], keep_whitespace)) >= 256
        IN  /\ long => result = "err"
            /\ (/\ HasOpsMarker(cs_input) /\ WellFormedSection(cs_input)
                 /\ ~long
                 /\ SectionSize(sec, Len(sec), keep_whitespace) < 65536)
                => result = "ok"
            /\ result = "ok" => EntriesOf(cs_output, sec, keep_whitespace)

\* a successful run that emitted an entry of exactly 255 bytes behind the
\* length byte 255, after another entry
C12_Witness ==
    /\ CsOk
    /\ \E i \in DOMAIN SectionLines(cs_input) :
          LET ln == SectionLines(cs_input)[i]
          IN  /\ Len(ContentOf(ln, keep_whitespace)) = 255
              /\ mapping[KeyOf(ln)] > 0
              /\ cs_output[mapping[KeyOf(ln)] + 1] = 255
              /\ Len(cs_output) = mapping[KeyOf(ln)] + 256

----------------------------------------------------------------------------
(* C13: the cap of the strings segment *)

\* bytes a strings table emits: a length byte and the content per entry
RECURSIVE TableSize(_, _)
TableSize(tbl, keys) ==
    IF keys = {} THEN 0
    ELSE LET k == CHOOSE x \in keys : TRUE
         IN  1 + Len(tbl[k].content) + TableSize(tbl, keys \ {k})

\* generate_string_bytes has returned Ok in this run
StringsEmitted ==
    /\ unit = "generate_byte_code"
    /\ pc \in {"data", "patch_strings", "patch_data", "patch_labels"} \/ GenOk

\* C13: a strings segment that compile_strings returns has fewer than
\* 65,536 bytes and one that generate_string_bytes returns has at most
\* MAX_STRING_BYTES bytes, length bytes included; an input whose entries
\* add up to more is rejected with an error.
C13_SegmentCap ==
    /\ CsOk => Len(cs_output) < 65536
    /\ CsDone =>
          (SectionSize(SectionLines(cs_input), Len(SectionLines(cs_input)),
                       keep_whitespace) >= 65536
           => result = "err")
    /\ StringsEmitted =>
          /\ Len(string_bytes) <= MAX_STRING_BYTES
          /\ TableSize(program_model.strings, DOMAIN program_model.strings)
                <= MAX_STRING_BYTES

----------------------------------------------------------------------------
(* C14: the tokens parse_number accepts *)

\* value of a numeral in positional notation
RECURSIVE Numeral(_, _)
Numeral(digits, radix) ==
    IF digits = <<>> THEN 0
    ELSE Numeral(SubSeq(digits, 1, Len(digits) - 1), radix) * radix
         + DigitValue(digits[Len(digits)])

\* a non-empty string of digits of the radix
Digits(s, radix) == s # <<>> /\ \A i \in DOMAIN s : DigitValue(s[i]) < radix

IsDecimalToken(s) == Digits(s, 10) /\ Numeral(s, 10) <= 255
IsHexToken(s) == s # <<>> /\ s[1] = CHAR_X /\ Len(s) \in {2, 3} /\ Digits(Tail(s), 16)
IsBinaryToken(s) == s # <<>> /\ s[1] = CHAR_B /\ Len(s) = 9 /\ Digits(Tail(s), 2)
IsCharToken(s) == Len(s) = 3 /\ s[1] = QUOTE /\ s[3] = QUOTE /\ s[2] < 128

\* the number a token of one of the four forms stands for
TokenValue(s) ==
    IF IsHexToken(s) THEN Numeral(Tail(s), 16)
    ELSE IF IsBinaryToken(s) THEN Numeral(Tail(s), 2)
    ELSE IF IsCharToken(s) THEN s[2]
    ELSE Numeral(s, 10)

\* C14: parse_number returns Ok exactly for a decimal numeral of value
\* 0..255, 'x' with one or two hex digits, 'b' with exactly eight binary
\* digits, and a quoted ASCII character, and then returns the number the
\* token stands for; any other token (one with a sign, with more digits, or
\* of a larger value) is an error.
C14_ParseNumberAccepts ==
    (unit = "parse_number" /\ pc = "done") =>
        /\ result = "ok" <=>
              (\/ IsDecimalToken(input) \/ IsHexToken(input)
               \/ IsBinaryToken(input) \/ IsCharToken(input))
        /\ result = "ok" => parsed = Number(TokenValue(input))
        /\ result \in {"ok", "err"}

----------------------------------------------------------------------------
(* C15: character literals through Parameters::parse *)

\* C15: for every ASCII character c, '#' and space included,
\* Parameters::NUMBER.parse of the three-character token 'c' returns
\* Number(code of c).
C15_CharLiteralOperand ==
    (/\ unit = "Parameters::parse" /\ pc = "done"
     /\ kind = "NUMBER" /\ IsCharToken(input))
    => (result = "ok" /\ parsed = Number(input[2]))

----------------------------------------------------------------------------
(* C16: first matching opcode *)

\* the catalogue as one list of opcodes in declaration order
RECURSIVE SignaturesFrom(_)
SignaturesFrom(i) ==
    IF i > Len(OPS) THEN <<>>
    ELSE [j \in DOMAIN OPS[i].variants |->
             [mnemonic |-> OPS[i].mnemonic,
              opcode |-> OPS[i].variants[j].opcode,
              kinds |-> OPS[i].variants[j].kinds]]
         \o SignaturesFrom(i + 1)

Signatures == SignaturesFrom(1)

\* the opcode matches the tokens: mnemonic, operand count, every operand
SignatureMatches(sig, parts) ==
    /\ ToAsciiLowercase(parts[1]) = ToAsciiLowercase(sig.mnemonic)
    /\ Len(parts) - 1 = Len(sig.kinds)
    /\ \A i \in DOMAIN sig.kinds : ParametersParse(sig.kinds[i], parts[i + 1]).ok

MatchingSignatures(parts) ==
    {i \in DOMAIN Signatures : SignatureMatches(Signatures[i], parts)}

\* C16: for a line with at least one token, parse_line returns the first
\* opcode of the catalogue, in declaration order, whose mnemonic matches
\* without regard to case, whose operand count is the number of operand
\* tokens and whose every operand parses against its kind, with the parsed
\* operands; earlier opcodes of the same mnemonic that do not match are
\* passed over; it returns an error exactly when no opcode matches.
C16_FirstMatchWins ==
    (unit = "parse_line" /\ pc = "done" /\ Tokenize(input) # <<>>) =>
        LET parts == Tokenize(input)
            matching == MatchingSignatures(parts)
            sig == Signatures[CHOOSE i \in matching : \A j \in matching : i <= j]
        IN  IF matching = {} THEN result = "err"
            ELSE /\ result = "ok"
                 /\ parsed.opcode = sig.opcode
                 /\ parsed.params =
                       [i \in DOMAIN sig.kinds |->
                           ParametersParse(sig.kinds[i], parts[i + 1]).param]

\* a line bound to the second opcode of its mnemonic, the first one having
\* the same operand count
C16_Witness ==
    /\ unit = "parse_line" /\ pc = "done" /\ result = "ok"
    /\ \E i, j \in DOMAIN Signatures :
          /\ i < j
          /\ Signatures[i].mnemonic = Signatures[j].mnemonic
          /\ Len(Signatures[i].kinds) = Len(Signatures[j].kinds)
          /\ ~SignatureMatches(Signatures[i], Tokenize(input))
          /\ SignatureMatches(Signatures[j], Tokenize(input))
          /\ parsed.opcode = Signatures[j].opcode
          /\ Len(parsed.params) = 4

----------------------------------------------------------------------------
(* C17: how a line of the strings section is split *)

\* s without its leading and trailing whitespace
Stripped(s) ==
    LET solid == {i \in DOMAIN s : s[i] \notin Whitespace}
    IN  IF solid = {} THEN <<>>
        ELSE SubSeq(s, CHOOSE i \in solid : \A j \in solid : i <= j,
                       CHOOSE i \in solid : \A j \in solid : j <= i)

\* position of the first '=' of a line that has one
SplitPoint(ln) ==
    CHOOSE i \in DOMAIN ln : ln[i] = EQUALS /\ \A j \in DOMAIN ln : ln[j] = EQUALS => i <= j

TextBefore(ln) == SubSeq(ln, 1, SplitPoint(ln) - 1)
TextAfter(ln) == SubSeq(ln, SplitPoint(ln) + 1, Len(ln))

\* C17: when compile_strings succeeds, every line of the section was split
\* at its first '=': its key is the text before it without surrounding
\* whitespace, whatever the flag, and (for a key defined once) the entry at
\* the key's address is the text after it, later '=' included, byte for
\* byte under keep_whitespace and without leading and trailing whitespace
\* otherwise.
C17_SplitAtFirstEquals ==
    CsOk =>
        LET sec == SectionLines(cs_input)
        IN  \A i \in DOMAIN sec :
               LET key == Stripped(TextBefore(sec[i]))
                   content == IF keep_whitespace THEN TextAfter(sec[i])
                              ELSE Stripped(TextAfter(sec[i]))
               IN  /\ key \in DOMAIN mapping
                   /\ (\A j \in DOMAIN sec :
                          j # i => Stripped(TextBefore(sec[j])) # key)
                       => EntryAt(cs_output, mapping[key], content)

\* a successful run without keep_whitespace over " ab =x" and "b= z "
C17_Witness ==
    /\ CsOk
    /\ ~keep_whitespace
    /\ SectionLines(cs_input) = << <<32, 97, 98, 32, 61, 120>>, <<98, 61, 32, 122, 32>> >>
    /\ mapping = (KAB :> 0) @@ (KB :> 2)
    /\ cs_output = <<1, 120, 1, 122>>

----------------------------------------------------------------------------
(* C18: labels behind the last op *)

\* the label is defined on a line after the line of every op
DefinedAfterOps(pm, k) ==
    /\ k \in DOMAIN pm.labels
    /\ pm.labels[k].definition.some
    /\ \A i \in DOMAIN pm.ops : pm.labels[k].definition.line_num > pm.ops[i].line_num

\* C18: when generate_byte_code succeeds on a model whose labels sit on
\* lines of their own, every label defined after the last op and referenced
\* by an op is bound to the length of the ops segment, and the two bytes of
\* every operand that references it hold that length.
C18_EndOfSegmentLabel ==
    (GenOk /\ LabelsOnOwnLines(program_model)) =>
        \A site \in Sites(program_model) :
            LET pm == program_model
                p == SiteParam(pm, site)
            IN  (p.kind = "Label" /\ DefinedAfterOps(pm, p.key)) =>
                   /\ p.key \in DOMAIN ops_output.label_addresses
                   /\ ops_output.label_addresses[p.key] = OpsLen(pm.ops)
                   /\ ReadU16Be(output, OperandPos(pm, site[1], site[2]))
                         = OpsLen(pm.ops)

----------------------------------------------------------------------------
(* C19: recorded target offsets *)

\* index of the parameter whose address is patched in (the first symbolic
\* one), 0 when the op has none
SymbolicParam(op) ==
    LET sym == {i \in DOMAIN op.params : op.params[i].kind \in SymbolicKinds}
    IN  IF sym = {} THEN 0 ELSE CHOOSE i \in sym : \A j \in sym : i <= j

\* the prefix of the tape in front of the ops segment
PrefixLen ==
    IF unit = "generate_byte_code"
    THEN 3 + 1 + Len(program_model.name) + 1 + Len(program_model.version) + 2
    ELSE offset

\* cursor + get_addr_byte_offset(opcode) + prefix for the symbolic operands
\* of kind `knd` and key `key` among the first n ops, in op order, computed
\* in unbounded integers
RECURSIVE ExpectedTargets(_, _, _, _)
ExpectedTargets(ops, n, knd, key) ==
    IF n = 0 THEN <<>>
    ELSE LET op == ops[n]
             rep == AddressReplacement(op)
             rest == ExpectedTargets(ops, n - 1, knd, key)
         IN  IF rep.kind = knd /\ rep.key = key
             THEN rest \o <<OpStart(ops, n) + GetAddrByteOffset(op.opcode)
                              + PrefixLen>>
             ELSE rest

\* true tape positions of the same operands
RECURSIVE TruePositions(_, _, _, _)
TruePositions(ops, n, knd, key) ==
    IF n = 0 THEN <<>>
    ELSE LET op == ops[n]
             rep == AddressReplacement(op)
             rest == TruePositions(ops, n - 1, knd, key)
         IN  IF rep.kind = knd /\ rep.key = key
             THEN rest \o <<PrefixLen + OpStart(ops, n)
                              + OperandStart(op, SymbolicParam(op))>>
             ELSE rest

RecordedExactly(targets, knd) ==
    \A key \in DOMAIN targets :
        /\ targets[key] = ExpectedTargets(program_model.ops, op_idx, knd, key)
        /\ targets[key] = TruePositions(program_model.ops, op_idx, knd, key)
        /\ \A j \in DOMAIN targets[key] : targets[key][j] + 1 <= 65535

\* C19: for every program whose ops segment fits in 16 bits, each target
\* offset recorded by generate_ops_bytes equals the ops-segment cursor plus
\* get_addr_byte_offset(opcode) plus the prefix length
\* (3 + 1 + nameLen + 1 + verLen + 2 in generate_byte_code) without
\* wrap-around: it is the true position of the operand in the tape, and
\* offset + 1 does not overflow 16 bits.
C19_TargetOffset ==
    (/\ unit \in OpsUnits
     /\ pc \notin {"header", "convert_labels"}
     /\ OpsLen(program_model.ops) <= 65535)
        => /\ offset = PrefixLen
           /\ RecordedExactly(ops_output.string_targets, "StrKey")
           /\ RecordedExactly(ops_output.data_targets, "DataKey")
           /\ RecordedExactly(ops_output.label_targets, "Label")

----------------------------------------------------------------------------
(* C20: frame effect of update_addresses *)

\* a call of update_addresses is the next step
AtUpdateCall ==
    \/ unit = "update_addresses" /\ pc = "call"
    \/ unit = "generate_byte_code"
         /\ pc \in {"patch_strings", "patch_data", "patch_labels"}

\* the `targets` argument of that call
CallTargets ==
    IF pc = "patch_data" THEN ops_output.data_targets
    ELSE IF pc = "patch_labels" THEN ops_output.label_targets
    ELSE ops_output.string_targets

\* the `sources` argument of that call
CallSources ==
    IF pc = "patch_data" THEN data_addresses
    ELSE IF pc = "patch_labels" THEN ops_output.label_addresses
    ELSE string_addresses

\* target offsets recorded for symbols present in both maps
RecordedOffsets ==
    UNION {{CallTargets[k][j] : j \in DOMAIN CallTargets[k]} :
             k \in DOMAIN CallTargets \cap DOMAIN CallSources}

\* indices (from 1) of the two bytes at each of those offsets
BytesAtTargets == UNION {{o + 1, o + 2} : o \in RecordedOffsets}

\* C20: when update_addresses returns, the byte vector has the length it
\* had, and every byte outside the two bytes at each recorded target offset
\* of a symbol present in both the target map and the address table is
\* unchanged; in particular a symbol with an address but no target changes
\* nothing.
C20_FrameEffect ==
    [][(AtUpdateCall /\ result' # "panic")
          => /\ Len(output') = Len(output)
             /\ \A i \in DOMAIN output :
                    output'[i] # output[i] => i \in BytesAtTargets]_vars

----------------------------------------------------------------------------
(* C21: parse_line is total *)

\* no op of the catalogue has the first token as its mnemonic
Unrecognised(parts) ==
    parts # <<>> /\ \A i \in DOMAIN OPS : ~OpMatches(OPS[i], parts[1])

\* C21: for every input string, the empty string and a string of only
\* whitespace included, parse_line returns Ok or an error value, an
\* unrecognised mnemonic giving the error; it never aborts on a missing
\* first token.
C21_ParseLineTotal ==
    (unit = "parse_line" /\ pc = "done") =>
        /\ result \in {"ok", "err"}
        /\ Unrecognised(Tokenize(input)) => result = "err"

----------------------------------------------------------------------------
(* C22: the stack is last-in-first-out *)

\* the instructions of a program, as <<opcode, argument>> pairs
Instructions(ops) ==
    [i \in 1..(Len(ops) \div 2) |-> <<ops[2 * i - 1], ops[2 * i]>>]

IsPush(ins) == ins[1] \in {PUSH_VAL, PUSH_REG}

\* bytes the instruction moves
StackWidth(ins) == IF ins[1] = PUSH_VAL THEN 1 ELSE RegWidth(ins[2])

PushCount(prog) == Cardinality({i \in DOMAIN prog : IsPush(prog[i])})

\* every push comes before every pop
PushesThenPops(prog) ==
    \A i \in DOMAIN prog : IsPush(prog[i]) <=> i <= PushCount(prog)

\* the value a push takes from the registers the run started with, as
\* bytes, high byte first
PushedBytes(su, ins) ==
    IF ins[1] = PUSH_VAL THEN <<ins[2]>>
    ELSE IF ins[2] \in AddrRegs
    THEN <<RegValue(su, ins[2]) \div 256, RegValue(su, ins[2]) % 256>>
    ELSE <<RegValue(su, ins[2])>>

\* the bytes of the first n pushes, the most recent value first
RECURSIVE LastInFirstOut(_, _, _)
LastInFirstOut(su, prog, n) ==
    IF n = 0 THEN <<>>
    ELSE PushedBytes(su, prog[n]) \o LastInFirstOut(su, prog, n - 1)

\* what the j-th instruction, a pop behind all pushes, must read
ExpectedPop(su, prog, j) ==
    LET pushes == PushCount(prog)
        skip == StackDepth(prog, pushes) - StackDepth(prog, j - 1)
        bytes == SubSeq(LastInFirstOut(su, prog, pushes),
                        skip + 1, skip + StackWidth(prog[j]))
    IN  IF Len(bytes) = 2 THEN bytes[1] * 256 + bytes[2] ELSE bytes[1]

====
